---- MODULE Spec2Model ----
(* Model of billybass.py: the BillyBass thread that drives the two motors  *)
(* of the animatronic (body and mouth) for a named task.                    *)
(*                                                                          *)
(* Times are in milliseconds.  Throttle values are IEEE-754 doubles, kept   *)
(* exactly: a double x with |x| < 2 is the integer x * 2^56, held as a   *)
(* sign and two limbs of 28 bits (TLC's integers have 32 bits).             *)
EXTENDS Integers, Sequences, FiniteSets

(* ------------------------------ bounds -------------------------------- *)
\* the background thread begins at most MaxIter invocations of its action
MaxIter == 2
\* the greet loop appends at most MaxSteps values to its list
MaxSteps == 12

(* --------------------------- double arithmetic ------------------------ *)
LimbBase == 16384 * 16384

Dbl(s, hi, lo) == [s |-> s, hi |-> hi, lo |-> lo]

\* the literals of the source
Zero   == Dbl(1, 0, 0)
One    == Dbl(1, 268435456, 0)
NegOne == Dbl(-1, 268435456, 0)
Fifth  == Dbl(1, 53687091, 53687092)

FNeg(x) == IF x.hi = 0 /\ x.lo = 0 THEN x ELSE Dbl(0 - x.s, x.hi, x.lo)

MagLess(a, b) == a.hi < b.hi \/ (a.hi = b.hi /\ a.lo < b.lo)

MagAdd(a, b) ==
    LET l == a.lo + b.lo
    IN  [hi |-> a.hi + b.hi + (l \div LimbBase), lo |-> l % LimbBase]

\* a - b for magnitudes with b <= a
MagSub(a, b) ==
    LET l == a.lo - b.lo
    IN  IF l >= 0 THEN [hi |-> a.hi - b.hi, lo |-> l]
                  ELSE [hi |-> a.hi - b.hi - 1, lo |-> l + LimbBase]

\* the spacing of the doubles around a magnitude (in units of 2^-56):
\* 53 significant bits are kept
Quantum(m) ==
    IF      m.hi >= 268435456 THEN 16
    ELSE IF m.hi >= 134217728 THEN 8
    ELSE IF m.hi >= 67108864  THEN 4
    ELSE IF m.hi >= 33554432  THEN 2
    ELSE 1

\* round to nearest, ties to even
RoundMag(m) ==
    LET q    == Quantum(m)
        r    == m.lo % q
        down == m.lo - r
        up   == down + q
        lo2  == IF 2 * r < q THEN down
                ELSE IF 2 * r > q THEN up
                ELSE IF (down \div q) % 2 = 0 THEN down ELSE up
    IN  IF lo2 = LimbBase THEN [hi |-> m.hi + 1, lo |-> 0]
                          ELSE [hi |-> m.hi, lo |-> lo2]

FAdd(x, y) ==
    IF x.s = y.s
    THEN LET m == RoundMag(MagAdd(x, y)) IN Dbl(x.s, m.hi, m.lo)
    ELSE IF MagLess(x, y)
         THEN LET m == RoundMag(MagSub(y, x)) IN Dbl(y.s, m.hi, m.lo)
         ELSE LET m == RoundMag(MagSub(x, y))
              IN  IF m.hi = 0 /\ m.lo = 0 THEN Zero ELSE Dbl(x.s, m.hi, m.lo)

FSub(x, y) == FAdd(x, FNeg(y))

\* -1.0 <= x <= 1.0
InRange(x) == MagLess(x, One) \/ (x.hi = One.hi /\ x.lo = One.lo)


(* ------------------------------ the motors ---------------------------- *)
\* self.motor, in the order of the dictionary
Axes == <<"body", "mouth">>
AxisSet == {Axes[k] : k \in 1..Len(Axes)}

Runners == {1, 2}

\* the smallest pacing delay; every delay of the source is a multiple of it
Tick == 50

\* the task strings a caller may pass to the constructor
ValidTasks == {"greet", "move_head", "move_tail", "move_mouth",
               "trigger", "response", "dance", "reset"}
InvalidTasks == {"", "Greet", "reset_motors", "sing"}
TaskInputs == ValidTasks \cup InvalidTasks

\* the throttle values the motors may have before a runner is used
PriorThrottles == {[body |-> Zero, mouth |-> Zero], [body |-> NegOne, mouth |-> One]}

(* ------------------- the steps of the background thread --------------- *)
\* motor.throttle = v
W(axis, v) == [k |-> "write", axis |-> axis, v |-> v, d |-> 0]
\* release_motor(d): time.sleep(d)
H(d) == [k |-> "release", axis |-> "none", v |-> Zero, d |-> d]
\* time.sleep(d) called by an action itself
S(d) == [k |-> "sleep", axis |-> "none", v |-> Zero, d |-> d]
\* time.sleep(.2) of run
P(d) == [k |-> "pause", axis |-> "none", v |-> Zero, d |-> d]
\* motor.throttle = v raised an exception
F(axis, v) == [k |-> "fault", axis |-> axis, v |-> v, d |-> 0]

\* the sleep is made twice
release_motor_twice(sensitivity) == <<H(sensitivity), H(sensitivity)>>

release_motor(sensitivity) == <<H(sensitivity)>>

RECURSIVE run_motor(_, _, _)
run_motor(motor, sensitivity, steps) ==
    IF steps = <<>> THEN <<>>
    ELSE <<W(motor, Head(steps))>> \o release_motor(sensitivity)
         \o run_motor(motor, sensitivity, Tail(steps))

\* the mouth is left open: the closing step is missing
move_mouth_open == run_motor("mouth", 100, <<One, NegOne>>)

move_mouth == run_motor("mouth", 100, <<One, NegOne, Zero>>)

move_head == run_motor("body", 1000, <<Zero, NegOne>>)

move_tail == run_motor("body", 1000, <<Zero, One, Zero>>)

\* the two calls are in the other order
trigger_mouth_first == move_mouth \o move_head

trigger == move_head \o move_mouth

response == move_mouth

\* the time buffer between head and tail is missing
dance_no_buffer == move_head \o move_tail

dance == move_head \o <<S(1000)>> \o move_tail

RECURSIVE reset_from(_)
reset_from(k) ==
    IF k > Len(Axes) THEN <<>> ELSE <<W(Axes[k], Zero)>> \o reset_from(k + 1)

\* the loop leaves after the first motor
reset_motors_first_only == <<W(Axes[1], Zero)>>

reset_motors == reset_from(1)

\* the decrement is .25
greet_next_quarter(i) == FSub(i, Dbl(1, 67108864, 0))

\* greet, line 184: i -= .2
greet_next(i) == FSub(i, Fifth)

\* the test is i >= -1.0: the loop takes one more turn
greet_continue_at_end(i) == i.s = 1 \/ ~MagLess(One, i)

\* greet, line 183: while i != -1.0
greet_continue(i) == i # NegOne

\* greet, lines 187-188, once the list of steps is built
greet_run(steps) == run_motor("mouth", 50, steps) \o <<W("mouth", Zero)>>

\* the else branch binds a default instead of raising
Resolve_default(t) ==
    IF      t = "greet"      THEN "greet"
    ELSE IF t = "move_head"  THEN "move_head"
    ELSE IF t = "move_tail"  THEN "move_tail"
    ELSE IF t = "move_mouth" THEN "move_mouth"
    ELSE IF t = "trigger"    THEN "trigger"
    ELSE IF t = "response"   THEN "response"
    ELSE IF t = "dance"      THEN "dance"
    ELSE "reset_motors"

\* two branches of the chain bind each other's method
Resolve_swapped(t) ==
    IF      t = "greet"      THEN "greet"
    ELSE IF t = "move_head"  THEN "move_head"
    ELSE IF t = "move_tail"  THEN "move_tail"
    ELSE IF t = "move_mouth" THEN "move_mouth"
    ELSE IF t = "trigger"    THEN "response"
    ELSE IF t = "response"   THEN "trigger"
    ELSE IF t = "dance"      THEN "dance"
    ELSE IF t = "reset"      THEN "reset_motors"
    ELSE "ValueError"

\* __enter__, lines 96-113: the method bound to self.exec; "ValueError" for the else branch
Resolve(t) ==
    IF      t = "greet"      THEN "greet"
    ELSE IF t = "move_head"  THEN "move_head"
    ELSE IF t = "move_tail"  THEN "move_tail"
    ELSE IF t = "move_mouth" THEN "move_mouth"
    ELSE IF t = "trigger"    THEN "trigger"
    ELSE IF t = "response"   THEN "response"
    ELSE IF t = "dance"      THEN "dance"
    ELSE IF t = "reset"      THEN "reset_motors"
    ELSE "ValueError"

\* the steps of a bound method other than greet (greet first builds its list)
Program(e) ==
    CASE e = "move_head"    -> move_head
      [] e = "move_tail"    -> move_tail
      [] e = "move_mouth"   -> move_mouth
      [] e = "trigger"      -> trigger
      [] e = "response"     -> response
      [] e = "dance"        -> dance
      [] e = "reset_motors" -> reset_motors

(* -------------------------------- state ------------------------------- *)
VARIABLES
    objs,      \* the BillyBass instances that were constructed
    prior,     \* the throttle of each motor when the instances were constructed
    throttle,  \* the throttle of each motor (shared by all instances)
    task,      \* self.task
    exec,      \* self.exec ("unset" before __enter__ binds it)
    done,      \* self.done
    pc,        \* the thread: unstarted, run, greet_loop, exec, pause, terminated,
               \* died (ended by an exception)
    todo,      \* the steps the thread has still to take in the current call
    gi,        \* greet's i
    gsteps,    \* greet's steps
    slept,     \* how long the sleep in progress has lasted
    iter,      \* the calls of self.exec the thread has begun
    trace,     \* every write and every completed sleep of the thread, in order
    mark,      \* Len(trace) when the current call of self.exec began
    started,   \* how many threads start() has begun for the instance
    err,       \* the outcome of the last __enter__: none, ok, ValueError, RuntimeError
    inwith,    \* the caller is inside the with block of the instance
    stopret,   \* a call of stop (or __exit__) has returned
    stops,     \* the calls of stop that have returned, counted up to two
    timed,     \* whether the stop latency is being measured
    lat        \* when measured: the time the thread has slept since done was set

vars == <<objs, timed, prior, throttle, task, exec, done, pc, todo, gi, gsteps, slept, iter,
          trace, mark, started, err, inwith, stopret, stops, lat>>

thread_vars == <<pc, todo, gi, gsteps, slept, iter, trace, mark, lat>>
caller_vars == <<exec, done, started, err, inwith, stopret, stops>>

\* __init__ for the instances rs, with the motors as they happen to be;
\* t: the stop latency is measured
Construct(rs, t) ==
    /\ objs = rs
    /\ timed = t
    /\ throttle \in PriorThrottles
    /\ prior = throttle
    /\ task \in [rs -> TaskInputs]
    /\ exec = [r \in rs |-> "unset"]
    /\ done = [r \in rs |-> FALSE]
    /\ pc = [r \in rs |-> "unstarted"]
    /\ todo = [r \in rs |-> <<>>]
    /\ gi = [r \in rs |-> Zero]
    /\ gsteps = [r \in rs |-> <<>>]
    /\ slept = [r \in rs |-> 0]
    /\ iter = [r \in rs |-> 0]
    /\ trace = [r \in rs |-> <<>>]
    /\ mark = [r \in rs |-> 0]
    /\ started = [r \in rs |-> 0]
    /\ err = [r \in rs |-> "none"]
    /\ inwith = [r \in rs |-> FALSE]
    /\ stopret = [r \in rs |-> FALSE]
    /\ stops = [r \in rs |-> 0]
    /\ lat = [r \in rs |-> 0]

Init == Construct({1}, FALSE)

InitTimed == Construct({1}, TRUE)

(* ------------------------------ the caller ---------------------------- *)
\* the start is refused while the thread of another instance is alive
start_exclusive(r) ==
    IF pc[r] = "unstarted"
       /\ \A o \in objs \ {r} : pc[o] \in {"unstarted", "terminated", "died"}
    THEN /\ pc' = [pc EXCEPT ![r] = "run"]
         /\ started' = [started EXCEPT ![r] = @ + 1]
         /\ err' = [err EXCEPT ![r] = "ok"]
         /\ inwith' = [inwith EXCEPT ![r] = TRUE]
    ELSE /\ err' = [err EXCEPT ![r] = "RuntimeError"]
         /\ UNCHANGED <<pc, started, inwith>>

\* a thread that has ended is started again
start_again(r) ==
    IF pc[r] \in {"unstarted", "terminated", "died"}
    THEN /\ pc' = [pc EXCEPT ![r] = "run"]
         /\ started' = [started EXCEPT ![r] = @ + 1]
         /\ err' = [err EXCEPT ![r] = "ok"]
         /\ inwith' = [inwith EXCEPT ![r] = TRUE]
    ELSE /\ err' = [err EXCEPT ![r] = "RuntimeError"]
         /\ UNCHANGED <<pc, started, inwith>>

\* Thread.start(): a thread can be started once
start(r) ==
    IF pc[r] = "unstarted"
    THEN /\ pc' = [pc EXCEPT ![r] = "run"]
         /\ started' = [started EXCEPT ![r] = @ + 1]
         /\ err' = [err EXCEPT ![r] = "ok"]
         /\ inwith' = [inwith EXCEPT ![r] = TRUE]
    ELSE /\ err' = [err EXCEPT ![r] = "RuntimeError"]
         /\ UNCHANGED <<pc, started, inwith>>

\* __enter__
enter(r) ==
    /\ IF Resolve(task[r]) = "ValueError"
       THEN /\ err' = [err EXCEPT ![r] = "ValueError"]
            /\ UNCHANGED <<exec, pc, started, inwith>>
       ELSE /\ exec' = [exec EXCEPT ![r] = Resolve(task[r])]
            /\ start(r)
    /\ UNCHANGED <<objs, timed, prior, throttle, task, done, todo, gi, gsteps, slept, iter,
                   trace, mark, stopret, stops, lat>>

\* the flag is toggled
stop_toggle(r) ==
    /\ done' = [done EXCEPT ![r] = ~@]
    /\ stopret' = [stopret EXCEPT ![r] = TRUE]
    /\ stops' = [stops EXCEPT ![r] = IF @ < 2 THEN @ + 1 ELSE @]
    /\ UNCHANGED throttle

\* the motors are reset as well
stop_and_reset(r) ==
    /\ done' = [done EXCEPT ![r] = TRUE]
    /\ stopret' = [stopret EXCEPT ![r] = TRUE]
    /\ stops' = [stops EXCEPT ![r] = IF @ < 2 THEN @ + 1 ELSE @]
    /\ throttle' = [a \in AxisSet |-> Zero]

\* stop: it sets the flag and touches nothing else, the motors included
stop(r) ==
    /\ done' = [done EXCEPT ![r] = TRUE]
    /\ stopret' = [stopret EXCEPT ![r] = TRUE]
    /\ stops' = [stops EXCEPT ![r] = IF @ < 2 THEN @ + 1 ELSE @]
    /\ UNCHANGED throttle

\* an explicit call of stop
call_stop(r) ==
    /\ stop(r)
    /\ UNCHANGED <<objs, timed, prior, task, exec, started, err, inwith>>
    /\ UNCHANGED thread_vars

\* __exit__, at the end of the with block
exit(r) ==
    /\ inwith[r]
    /\ stop(r)
    /\ inwith' = [inwith EXCEPT ![r] = FALSE]
    /\ UNCHANGED <<objs, timed, prior, task, exec, started, err>>
    /\ UNCHANGED thread_vars

(* ------------------------------ the thread ---------------------------- *)
\* the loop never looks at the flag
run_continue_always(r) == TRUE

\* run, line 235: while not self.done
run_continue(r) == ~done[r]

\* run, lines 235-236: the test of the while loop, and the call of self.exec
run(r) ==
    /\ pc[r] = "run"
    /\ IF ~run_continue(r)
       THEN /\ pc' = [pc EXCEPT ![r] = "terminated"]
            /\ UNCHANGED <<todo, gi, gsteps, iter, mark>>
       ELSE /\ iter[r] < MaxIter
            /\ iter' = [iter EXCEPT ![r] = @ + 1]
            /\ mark' = [mark EXCEPT ![r] = Len(trace[r])]
            /\ IF exec[r] = "greet"
               THEN /\ pc' = [pc EXCEPT ![r] = "greet_loop"]
                    /\ gi' = [gi EXCEPT ![r] = One]
                    /\ gsteps' = [gsteps EXCEPT ![r] = <<>>]
                    /\ UNCHANGED todo
               ELSE /\ pc' = [pc EXCEPT ![r] = "exec"]
                    /\ todo' = [todo EXCEPT ![r] = Program(exec[r])]
                    /\ UNCHANGED <<gi, gsteps>>
    /\ UNCHANGED <<objs, timed, prior, throttle, task, slept, trace, lat>>
    /\ UNCHANGED caller_vars

\* greet, lines 183-187: one turn of the while loop, or the call of run_motor
greet(r) ==
    /\ pc[r] = "greet_loop"
    /\ IF greet_continue(gi[r])
       THEN /\ Len(gsteps[r]) < MaxSteps
            /\ gi' = [gi EXCEPT ![r] = greet_next(gi[r])]
            /\ gsteps' = [gsteps EXCEPT ![r] = Append(@, greet_next(gi[r]))]
            /\ UNCHANGED <<pc, todo>>
       ELSE /\ pc' = [pc EXCEPT ![r] = "exec"]
            /\ todo' = [todo EXCEPT ![r] = greet_run(gsteps[r])]
            /\ UNCHANGED <<gi, gsteps>>
    /\ UNCHANGED <<objs, timed, prior, throttle, task, slept, iter, trace, mark, lat>>
    /\ UNCHANGED caller_vars

\* motor.throttle = step (run_motor line 260, greet line 188, reset_motors line 270)
write(r) ==
    /\ pc[r] = "exec"
    /\ todo[r] # <<>>
    /\ Head(todo[r]).k = "write"
    /\ throttle' = [throttle EXCEPT ![Head(todo[r]).axis] = Head(todo[r]).v]
    /\ trace' = [trace EXCEPT ![r] = Append(@, Head(todo[r]))]
    /\ todo' = [todo EXCEPT ![r] = Tail(@)]
    /\ UNCHANGED <<objs, timed, prior, task, pc, gi, gsteps, slept, iter, mark, lat>>
    /\ UNCHANGED caller_vars

\* the pause is left out when the flag is already set
exec_return_unless_done(r) ==
    /\ pc[r] = "exec"
    /\ todo[r] = <<>>
    /\ IF done[r]
       THEN pc' = [pc EXCEPT ![r] = "run"] /\ UNCHANGED todo
       ELSE pc' = [pc EXCEPT ![r] = "pause"] /\ todo' = [todo EXCEPT ![r] = <<P(200)>>]
    /\ UNCHANGED <<objs, timed, prior, throttle, task, gi, gsteps, slept, iter, trace, mark, lat>>
    /\ UNCHANGED caller_vars

\* self.exec() has returned: run, line 237, calls time.sleep(.2)
exec_return(r) ==
    /\ pc[r] = "exec"
    /\ todo[r] = <<>>
    /\ pc' = [pc EXCEPT ![r] = "pause"]
    /\ todo' = [todo EXCEPT ![r] = <<P(200)>>]
    /\ UNCHANGED <<objs, timed, prior, throttle, task, gi, gsteps, slept, iter, trace, mark, lat>>
    /\ UNCHANGED caller_vars

\* the sleep returns at once when the flag is set
sleep_cut_by_stop(r) ==
    /\ pc[r] \in {"exec", "pause"}
    /\ todo[r] # <<>>
    /\ Head(todo[r]).k \in {"release", "sleep", "pause"}
    /\ lat' = [lat EXCEPT ![r] = IF timed /\ done[r] THEN @ + Tick ELSE @]
    /\ IF done[r] \/ slept[r] + Tick >= Head(todo[r]).d
       THEN /\ slept' = [slept EXCEPT ![r] = 0]
            /\ trace' = [trace EXCEPT ![r] = Append(@, Head(todo[r]))]
            /\ todo' = [todo EXCEPT ![r] = Tail(@)]
            /\ pc' = [pc EXCEPT ![r] = IF @ = "pause" THEN "run" ELSE @]
       ELSE /\ slept' = [slept EXCEPT ![r] = @ + Tick]
            /\ UNCHANGED <<trace, todo, pc>>
    /\ UNCHANGED <<objs, timed, prior, throttle, task, gi, gsteps, iter, mark>>
    /\ UNCHANGED caller_vars

\* time.sleep: one tick of the sleep at the head of todo; the sleep returns,
\* and is recorded, when its whole duration has passed
sleep(r) ==
    /\ pc[r] \in {"exec", "pause"}
    /\ todo[r] # <<>>
    /\ Head(todo[r]).k \in {"release", "sleep", "pause"}
    /\ lat' = [lat EXCEPT ![r] = IF timed /\ done[r] THEN @ + Tick ELSE @]
    /\ IF slept[r] + Tick >= Head(todo[r]).d
       THEN /\ slept' = [slept EXCEPT ![r] = 0]
            /\ trace' = [trace EXCEPT ![r] = Append(@, Head(todo[r]))]
            /\ todo' = [todo EXCEPT ![r] = Tail(@)]
            /\ pc' = [pc EXCEPT ![r] = IF @ = "pause" THEN "run" ELSE @]
       ELSE /\ slept' = [slept EXCEPT ![r] = @ + Tick]
            /\ UNCHANGED <<trace, todo, pc>>
    /\ UNCHANGED <<objs, timed, prior, throttle, task, gi, gsteps, iter, mark>>
    /\ UNCHANGED caller_vars

\* run's handler logs the exception and goes on with the loop
fault_swallowed(r) ==
    /\ pc[r] = "exec"
    /\ todo[r] # <<>>
    /\ Head(todo[r]).k = "write"
    /\ trace' = [trace EXCEPT ![r] = Append(@, F(Head(todo[r]).axis, Head(todo[r]).v))]
    /\ todo' = [todo EXCEPT ![r] = <<P(200)>>]
    /\ pc' = [pc EXCEPT ![r] = "pause"]
    /\ UNCHANGED <<objs, timed, prior, throttle, task, gi, gsteps, slept, iter, mark, lat>>
    /\ UNCHANGED caller_vars

\* motor.throttle = step raises (the hardware cannot be reached): the motor is
\* not set, the exception leaves run_motor and the action, run logs it and
\* raises it again (lines 238-240), and the thread ends
fault(r) ==
    /\ pc[r] = "exec"
    /\ todo[r] # <<>>
    /\ Head(todo[r]).k = "write"
    /\ trace' = [trace EXCEPT ![r] = Append(@, F(Head(todo[r]).axis, Head(todo[r]).v))]
    /\ todo' = [todo EXCEPT ![r] = <<>>]
    /\ pc' = [pc EXCEPT ![r] = "died"]
    /\ UNCHANGED <<objs, timed, prior, throttle, task, gi, gsteps, slept, iter, mark, lat>>
    /\ UNCHANGED caller_vars

thread(r) == run(r) \/ greet(r) \/ write(r) \/ exec_return(r) \/ sleep(r)

Next ==
    \/ \E r \in objs : enter(r)
    \/ \E r \in objs : call_stop(r)
    \/ \E r \in objs : exit(r)
    \/ \E r \in objs : run(r)
    \/ \E r \in objs : greet(r)
    \/ \E r \in objs : write(r)
    \/ \E r \in objs : exec_return(r)
    \/ \E r \in objs : sleep(r)

Spec == Init /\ [][Next]_vars

\* the same, with motors that may fail
NextFault ==
    \/ Next
    \/ \E r \in objs : fault(r)

FaultSpec == Init /\ [][NextFault]_vars

\* the tasks of two runners that are made one after the other
RaceTasks == <<{"greet"}, {"reset"}>>

\* two instances on the same two motors, which are at rest
InitRace ==
    /\ Construct(Runners, FALSE)
    /\ \A r \in Runners : task[r] \in RaceTasks[r]
    /\ \A a \in AxisSet : prior[a] = Zero

RaceSpec == InitRace /\ [][Next]_vars

\* the same, with the stop latency measured
TimedSpec == InitTimed /\ [][Next]_vars

\* the operating system schedules the thread, and every sleep returns
FairSpec == Spec /\ \A r \in Runners : WF_vars(r \in objs /\ thread(r))

(* ------------------------- the runner's state ------------------------- *)
\* section 4.3 of the specification, read off the thread and the stop flag
RunnerState(r) ==
    IF pc[r] = "unstarted" THEN "CREATED"
    ELSE IF pc[r] \in {"terminated", "died"} THEN "TERMINATED"
    ELSE IF done[r] THEN "STOPPING"
    ELSE "RUNNING"

\* what the thread has written and slept in the current call of self.exec
Invocation(r) == SubSeq(trace[r], mark[r] + 1, Len(trace[r]))

\* the current call of self.exec has returned, and the pause after it is not over
Returned(r) == pc[r] = "pause"

IsWrite(e) == e.k = "write"

\* the values written to an axis, in order
RECURSIVE Values(_, _)
Values(seq, axis) ==
    IF seq = <<>> THEN <<>>
    ELSE IF Head(seq).k = "write" /\ Head(seq).axis = axis
         THEN <<Head(seq).v>> \o Values(Tail(seq), axis)
         ELSE Values(Tail(seq), axis)

(* ------------------------------- claims ------------------------------- *)

\* C1: for a task string outside the eight task names, __enter__ fails with the
\* invalid-task error (ValueError), no thread is ever started, the runner stays
\* CREATED and the runner never writes a throttle.
C1_InvalidTaskNeverRuns ==
    \A r \in objs :
        task[r] \notin ValidTasks =>
            /\ err[r] \in {"none", "ValueError"}
            /\ started[r] = 0
            /\ RunnerState(r) = "CREATED"
            /\ exec[r] = "unset"
            /\ trace[r] = <<>>

\* an invalid task was activated, and stopped afterwards
C1_Witness ==
    \E r \in objs :
        task[r] \notin ValidTasks /\ err[r] = "ValueError" /\ done[r]

\* the resolution table of section 4.1
TableAction(t) ==
    CASE t = "greet"      -> "greet"
      [] t = "move_head"  -> "move_head"
      [] t = "move_tail"  -> "move_tail"
      [] t = "move_mouth" -> "move_mouth"
      [] t = "trigger"    -> "trigger"
      [] t = "response"   -> "response"
      [] t = "dance"      -> "dance"
      [] t = "reset"      -> "reset_motors"

\* C2: activating a created runner with one of the eight task names raises no
\* error, binds the action of the resolution table, starts exactly one thread
\* (the runner is RUNNING unless stop was already called) and returns before
\* the thread has taken any step or slept.
C2_ActivationStarts ==
    [][\A r \in Runners :
         (r \in objs /\ task[r] \in ValidTasks /\ pc[r] = "unstarted" /\ enter(r)) =>
            /\ err'[r] = "ok"
            /\ exec'[r] = TableAction(task[r])
            /\ started'[r] = 1
            /\ pc'[r] = "run"
            /\ (~done[r] => RunnerState(r)' = "RUNNING")
            /\ trace'[r] = <<>> /\ iter'[r] = 0 /\ slept'[r] = 0 /\ todo'[r] = <<>>
      ]_vars

\* a valid task was activated while the caller had not asked to stop, and the
\* thread went on to call its action
C2_Witness ==
    \E r \in objs :
        /\ task[r] = "trigger" /\ err[r] = "ok" /\ started[r] = 1
        /\ ~done[r] /\ pc[r] = "exec" /\ exec[r] = "trigger"

\* C3: stop and __exit__ return only when the thread has finished: in the state
\* in which a call of stop (or __exit__) on a started runner returns, the runner
\* is TERMINATED.
C3_StopJoins ==
    [][\A r \in Runners :
         (r \in objs /\ pc[r] # "unstarted" /\ (call_stop(r) \/ exit(r))) =>
            RunnerState(r)' = "TERMINATED"
      ]_vars

\* the writes, holds and pause of the move_head runner, repeated
HeadCycle == <<W("body", Zero), H(1000), W("body", NegOne), H(1000), P(200)>>

IsHeadCycles(seq) ==
    \A k \in 1..Len(seq) : seq[k] = HeadCycle[((k - 1) % Len(HeadCycle)) + 1]

\* C4: a runner activated with move_head commands BODY with 0.0, -1.0 again and
\* again, a 0.2 s pause after each repetition, and once stop has returned it
\* issues no further throttle command.
C4_NoWriteAfterStop ==
    [][\A r \in Runners :
         (r \in objs /\ task[r] = "move_head") =>
            /\ IsHeadCycles(trace'[r])
            /\ (stopret[r] =>
                  \A a \in AxisSet : Values(trace'[r], a) = Values(trace[r], a))
      ]_vars

Held(axis, d, vals) ==
    [k \in 1..(2 * Len(vals)) |->
        IF k % 2 = 1 THEN W(axis, vals[(k + 1) \div 2]) ELSE H(d)]

IsPrefix(a, b) == Len(a) <= Len(b) /\ a = SubSeq(b, 1, Len(a))

\* the doubles nearest to the decimals of section 8
ClaimedGreetValues ==
    << One,                               \*  1.0
       Dbl(1, 214748364, 214748368),      \*  0.8
       Dbl(1, 161061273, 161061272),      \*  0.6
       Dbl(1, 107374182, 107374184),      \*  0.4
       Dbl(1, 53687091, 53687092),        \*  0.2
       Zero,                              \*  0.0
       Dbl(-1, 53687091, 53687092),       \* -0.2
       Dbl(-1, 107374182, 107374184),     \* -0.4
       Dbl(-1, 161061273, 161061272),     \* -0.6
       Dbl(-1, 214748364, 214748368) >>   \* -0.8

\* C6 as stated: one invocation of greet commands MOUTH with 1.0, 0.8, ..., -0.8,
\* each held 0.05 s, then with a final 0.0, and writes nothing to BODY.
C6_GreetFromOne ==
    \A r \in objs :
        (exec[r] = "greet" /\ Returned(r)) =>
            Invocation(r) = Held("mouth", 50, ClaimedGreetValues) \o <<W("mouth", Zero)>>

\* what 1.0 - .2 - .2 - ... gives in double arithmetic
GreetValues ==
    << Dbl(1, 214748364, 214748368),      \*  0.8
       Dbl(1, 161061273, 161061280),      \*  0.6000000000000001
       Dbl(1, 107374182, 107374188),      \*  0.4000000000000001
       Dbl(1, 53687091, 53687096),        \*  0.20000000000000007
       Dbl(1, 0, 4),                      \*  5.551115123125783e-17
       Dbl(-1, 53687091, 53687088),       \* -0.19999999999999996
       Dbl(-1, 107374182, 107374180),     \* -0.39999999999999997
       Dbl(-1, 161061273, 161061272),     \* -0.6
       Dbl(-1, 214748364, 214748368),     \* -0.8
       NegOne >>                          \* -1.0

\* C6 amended: one invocation of greet commands MOUTH with the ten values that
\* subtracting .2 from 1.0 one to ten times gives in double arithmetic (0.8 first,
\* -1.0 last; 1.0 itself is not commanded), each held 0.05 s, then with a final
\* 0.0 that is not held, and writes nothing to BODY.
C6_GreetSweep ==
    \A r \in objs :
        /\ pc[r] = "greet_loop" => IsPrefix(gsteps[r], GreetValues)
        /\ (exec[r] = "greet" /\ Returned(r)) =>
              Invocation(r) = Held("mouth", 50, GreetValues) \o <<W("mouth", Zero)>>

\* greet has returned for the second time, and left the mouth at 0.0
C6_Witness ==
    \E r \in objs :
        /\ exec[r] = "greet" /\ Returned(r) /\ iter[r] = 2
        /\ Len(Invocation(r)) = 21 /\ throttle["mouth"] = Zero

\* C7: once stop has been signalled to a runner whose thread was started, the
\* thread eventually terminates, whatever the task and wherever the thread was.
C7_StopTerminates ==
    \A r \in Runners :
        (r \in objs /\ done[r] /\ pc[r] # "unstarted") ~> (r \in objs /\ pc[r] = "terminated")

\* a greet runner was stopped inside its sweep loop and has terminated
C7_Witness ==
    \E r \in objs :
        /\ exec[r] = "greet" /\ RunnerState(r) = "TERMINATED"
        /\ iter[r] >= 1 /\ stopret[r]

\* C8 as stated: no runner takes longer than one greet sweep (10 x 0.05 s) and
\* the 0.2 s pause, 0.7 s in all, from the stop signal to its termination.
C8_StopWithinGreet ==
    \A r \in objs : lat[r] <= 10 * 50 + 200

\* the longest one iteration of each task and the pause after it can take (ms)
WorstLatency(t) ==
    CASE t = "greet"      -> 10 * 50 + 200
      [] t = "move_head"  -> 2 * 1000 + 200
      [] t = "move_tail"  -> 3 * 1000 + 200
      [] t = "move_mouth" -> 3 * 100 + 200
      [] t = "trigger"    -> 2 * 1000 + 3 * 100 + 200
      [] t = "response"   -> 3 * 100 + 200
      [] t = "dance"      -> 2 * 1000 + 1000 + 3 * 1000 + 200
      [] t = "reset"      -> 200
      [] OTHER            -> 0

\* C8 amended: counted in pacing delays, the time from the stop signal to
\* termination is at most one iteration of the runner's own action and the
\* 0.2 s pause; the longest action is dance (five holds of 1.0 s and its 1.0 s
\* pause), so the worst case over all tasks is 6.2 s, and 0.7 s is the worst
\* case of greet alone.
C8_StopWithinOneIteration ==
    \A r \in objs :
        /\ lat[r] <= WorstLatency(task[r])
        /\ lat[r] <= 6200

\* a dance runner that was stopped just after its while test has terminated
\* 6.2 s of pacing later
C8_Witness ==
    \E r \in objs :
        task[r] = "dance" /\ RunnerState(r) = "TERMINATED" /\ lat[r] = 6200

\* C9: one invocation of trigger is the move_head sequence (BODY 0.0, -1.0, each
\* held 1.0 s) and right after it the move_mouth sequence (MOUTH 1.0, -1.0, 0.0,
\* each held 0.1 s), with no other write and no other delay.
C9_TriggerSequence ==
    \A r \in objs :
        (exec[r] = "trigger" /\ Returned(r)) =>
            Invocation(r) = Held("body", 1000, <<Zero, NegOne>>)
                            \o Held("mouth", 100, <<One, NegOne, Zero>>)

\* trigger has returned: the head is displaced and the mouth is back at 0.0
C9_Witness ==
    \E r \in objs :
        /\ task[r] = "trigger" /\ Returned(r) /\ Len(Invocation(r)) = 10
        /\ throttle["body"] = NegOne /\ throttle["mouth"] = Zero

\* C10: one invocation of move_mouth, and of response, commands MOUTH with
\* 1.0, -1.0, 0.0, each held 0.1 s, and writes nothing to BODY.
C10_MouthSequence ==
    \A r \in objs :
        (exec[r] \in {"move_mouth", "response"} /\ Returned(r)) =>
            Invocation(r) = Held("mouth", 100, <<One, NegOne, Zero>>)

\* response has returned for the second time and the body was never written
C10_Witness ==
    \E r \in objs :
        /\ task[r] = "response" /\ Returned(r) /\ iter[r] = 2
        /\ Len(Invocation(r)) = 6 /\ throttle["body"] = prior["body"]
        /\ prior["body"] = NegOne

\* C11: every throttle value a runner writes, and so every value a motor holds,
\* is in [-1.0, 1.0], for every task and in every state.
C11_ThrottleInRange ==
    /\ \A a \in AxisSet : InRange(throttle[a])
    /\ \A r \in objs :
          /\ \A k \in 1..Len(trace[r]) : IsWrite(trace[r][k]) => InRange(trace[r][k].v)
          /\ \A k \in 1..Len(todo[r]) : IsWrite(todo[r][k]) => InRange(todo[r][k].v)
          /\ \A k \in 1..Len(gsteps[r]) : InRange(gsteps[r][k])

\* the greet sweep has reached its last value, -1.0, the edge of the range
C11_Witness ==
    \E r \in objs :
        /\ exec[r] = "greet" /\ pc[r] = "exec"
        /\ throttle["mouth"] = NegOne
        /\ Len(Values(Invocation(r), "mouth")) = 10

\* C12: a call of stop (or __exit__) on a runner whose flag is already set, be
\* it STOPPING or TERMINATED, raises nothing and changes neither the flag, the
\* thread, the runner's state nor a throttle.
C12_StopIdempotent ==
    [][\A r \in Runners :
         (r \in objs /\ done[r] /\ (call_stop(r) \/ exit(r))) =>
            /\ done' = done
            /\ RunnerState(r)' = RunnerState(r)
            /\ throttle' = throttle
            /\ UNCHANGED thread_vars
            /\ UNCHANGED <<exec, started, err>>
      ]_vars

\* stop was called a second time on a runner that had already terminated after
\* running its action
C12_Witness ==
    \E r \in objs :
        /\ stops[r] = 2 /\ RunnerState(r) = "TERMINATED" /\ iter[r] >= 1
        /\ done[r] /\ err[r] = "ok"

\* the writes and delays of one call of each action, from the resolution table
\* (greet with the values its loop computes)
ExpectedProgram(e) ==
    CASE e = "greet"        -> Held("mouth", 50, GreetValues) \o <<W("mouth", Zero)>>
      [] e = "move_head"    -> Held("body", 1000, <<Zero, NegOne>>)
      [] e = "move_tail"    -> Held("body", 1000, <<Zero, One, Zero>>)
      [] e = "move_mouth"   -> Held("mouth", 100, <<One, NegOne, Zero>>)
      [] e = "trigger"      -> Held("body", 1000, <<Zero, NegOne>>)
                               \o Held("mouth", 100, <<One, NegOne, Zero>>)
      [] e = "response"     -> Held("mouth", 100, <<One, NegOne, Zero>>)
      [] e = "dance"        -> Held("body", 1000, <<Zero, NegOne>>) \o <<S(1000)>>
                               \o Held("body", 1000, <<Zero, One, Zero>>)
      [] e = "reset_motors" -> <<W("body", Zero), W("mouth", Zero)>>

\* C13: the thread reads the stop flag only between iterations: it terminates
\* only from the while test, and whenever it is back at that test after a call
\* of its action, all the steps and holds of the call and the whole 0.2 s pause
\* have been made, whether or not stop was signalled meanwhile.
C13_FlagReadAtBoundary ==
    [][\A r \in Runners :
         r \in objs =>
            /\ (pc[r] # "terminated" /\ pc'[r] = "terminated") => (pc[r] = "run" /\ done[r])
            /\ (pc[r] \in {"greet_loop", "exec", "pause"} /\ pc'[r] # pc[r]) =>
                  pc'[r] \in {"exec", "pause", "run"}
            /\ (pc'[r] = "run" /\ iter'[r] >= 1) =>
                  Invocation(r)' = ExpectedProgram(exec[r]) \o <<P(200)>>
      ]_vars

\* stop was signalled before the call of the action had made all its steps, and
\* the thread is back at the while test with the whole call and pause made
C13_Witness ==
    \E r \in objs :
        /\ task[r] = "move_tail" /\ pc[r] = "run" /\ iter[r] = 1 /\ done[r]
        /\ lat[r] > 200 /\ lat[r] < 3200
        /\ Invocation(r) = ExpectedProgram("move_tail") \o <<P(200)>>

Last(seq) == seq[Len(seq)]

IsDelay(e) == e.k \in {"release", "sleep", "pause"}

\* C14: inside a call of an action the thread takes the steps in the order of
\* the program (what it has done and what it has still to do are the program);
\* a write never happens while a sleep is in progress, and follows a write
\* directly only in reset_motors, which holds nothing; a sleep advances tick by
\* tick and returns only when its whole duration has passed, stop signalled or not.
C14_StepsInOrderHoldsWhole ==
    [][\A r \in Runners :
         r \in objs =>
            /\ pc'[r] = "exec" =>
                  Invocation(r)' \o todo'[r] = ExpectedProgram(exec[r])
            /\ (Len(trace'[r]) > Len(trace[r]) /\ IsWrite(Last(trace'[r]))) =>
                  /\ slept[r] = 0
                  /\ (Invocation(r) # <<>> /\ IsWrite(Last(Invocation(r)))) =>
                        exec[r] = "reset_motors"
            /\ (Len(trace'[r]) > Len(trace[r]) /\ IsDelay(Last(trace'[r]))) =>
                  slept[r] + Tick = Last(trace'[r]).d
            /\ slept'[r] # slept[r] =>
                  \/ slept'[r] = slept[r] + Tick /\ trace'[r] = trace[r]
                  \/ slept'[r] = 0 /\ Len(trace'[r]) > Len(trace[r])
      ]_vars

\* stop was signalled in the middle of a hold of 1.0 s, the hold was made to its
\* end, and the thread goes on to the next write of the program
C14_Witness ==
    \E r \in objs :
        /\ pc[r] = "exec" /\ slept[r] = 0 /\ done[r]
        /\ Invocation(r) # <<>> /\ Last(Invocation(r)) = H(1000)
        /\ lat[r] > 0 /\ lat[r] < 1000
        /\ todo[r] # <<>> /\ IsWrite(Head(todo[r]))

\* the value last written to an axis in seq, or dflt when seq has none
RECURSIVE LastWritten(_, _, _)
LastWritten(seq, axis, dflt) ==
    IF seq = <<>> THEN dflt
    ELSE IF IsWrite(Last(seq)) /\ Last(seq).axis = axis THEN Last(seq).v
    ELSE LastWritten(SubSeq(seq, 1, Len(seq) - 1), axis, dflt)

\* the only instance, when there is one only
TheRunner == CHOOSE r \in objs : TRUE

\* C15: __init__, __enter__, stop and __exit__ write no throttle: a throttle
\* changes only in a write of a thread; so each axis holds the value the thread
\* wrote to it last (its value at construction when it wrote none), also after
\* stop and after the thread has terminated.
C15_OnlyThreadWrites ==
    [][/\ \A r \in Runners :
            (r \in objs /\ (enter(r) \/ call_stop(r) \/ exit(r))) => throttle' = throttle
       /\ throttle' # throttle => \E r \in objs : write(r)
       /\ \A a \in AxisSet :
            /\ throttle[a] = LastWritten(trace[TheRunner], a, prior[a])
            /\ throttle'[a] = LastWritten(trace'[TheRunner], a, prior[a])
      ]_vars

\* a move_head runner was stopped and has terminated: the head stays displaced
C15_Witness ==
    \E r \in objs :
        /\ task[r] = "move_head" /\ RunnerState(r) = "TERMINATED" /\ stops[r] >= 1
        /\ prior["body"] = Zero /\ throttle["body"] = NegOne
        /\ throttle["mouth"] = prior["mouth"]

\* seq without the record of a failed write
RECURSIVE Applied(_)
Applied(seq) ==
    IF seq = <<>> THEN <<>>
    ELSE IF Head(seq).k = "fault" THEN Applied(Tail(seq))
    ELSE <<Head(seq)>> \o Applied(Tail(seq))

\* C16: when a throttle write fails, the write is not made again, the thread
\* ends (the runner is no longer RUNNING), it takes no later step and begins no
\* further iteration, and the motors keep the values of the last writes that
\* succeeded: of the action in progress exactly a prefix was applied, the failed
\* step not included.
C16_FaultEndsThread ==
    [][\A r \in Runners :
         r \in objs =>
            /\ fault(r) =>
                  /\ pc'[r] = "died" /\ RunnerState(r)' = "TERMINATED"
                  /\ throttle' = throttle
                  /\ todo'[r] = <<>>
                  /\ Applied(trace'[r]) = Applied(trace[r])
            /\ pc[r] = "died" =>
                  /\ pc'[r] = "died" /\ throttle' = throttle
                  /\ trace'[r] = trace[r] /\ todo'[r] = <<>> /\ iter'[r] = iter[r]
            /\ pc'[r] = "died" =>
                  /\ IsPrefix(Applied(Invocation(r)'), ExpectedProgram(exec[r]))
                  /\ Len(Applied(Invocation(r)')) < Len(ExpectedProgram(exec[r]))
                  /\ Last(trace'[r]).k = "fault"
                  /\ \A a \in AxisSet :
                        throttle'[a] = LastWritten(trace'[r], a, prior[a])
      ]_vars

\* the first write of move_mouth failed in the second half of trigger: the head
\* is displaced, the mouth was never set, and stop was called afterwards
C16_Witness ==
    \E r \in objs :
        /\ task[r] = "trigger" /\ pc[r] = "died" /\ done[r]
        /\ Applied(Invocation(r)) = Held("body", 1000, <<Zero, NegOne>>)
        /\ Last(trace[r]) = F("mouth", One)
        /\ throttle["body"] = NegOne /\ throttle["mouth"] = prior["mouth"]

\* C17: a runner that is stopped right after its activation still makes at
\* least one whole call of its action before it terminates, however the stop
\* and the thread's first test of the flag are interleaved (the runner here was
\* activated and then stopped once, by the end of its with block).
C17_AtLeastOneInvocation ==
    \A r \in objs :
        (pc[r] = "terminated" /\ err[r] = "ok" /\ ~inwith[r] /\ stops[r] = 1) =>
            /\ iter[r] >= 1
            /\ SubSeq(trace[r], 1, Len(ExpectedProgram(exec[r]))) = ExpectedProgram(exec[r])

\* C18: an instance starts at most one thread, and a runner that is TERMINATED
\* stays so; __enter__ on an instance whose thread was already started (RUNNING,
\* STOPPING or TERMINATED) raises, starts no thread, leaves the runner's state,
\* the flag, the thread and the throttles as they are.
C18_StartedOnce ==
    [][\A r \in Runners :
         r \in objs =>
            /\ started'[r] <= 1
            /\ RunnerState(r) = "TERMINATED" =>
                  /\ pc'[r] = pc[r]
                  /\ trace'[r] = trace[r] /\ iter'[r] = iter[r]
            /\ (pc[r] # "unstarted" /\ enter(r)) =>
                  /\ err'[r] = "RuntimeError"
                  /\ started'[r] = started[r]
                  /\ RunnerState(r)' = RunnerState(r)
                  /\ done' = done /\ throttle' = throttle
                  /\ UNCHANGED thread_vars
      ]_vars

\* __enter__ was called again on a runner that had run its action and terminated
C18_Witness ==
    \E r \in objs :
        /\ err[r] = "RuntimeError" /\ RunnerState(r) = "TERMINATED"
        /\ started[r] = 1 /\ iter[r] >= 1

\* C20: one invocation of dance is the move_head sequence (BODY 0.0, -1.0, each
\* held 1.0 s), a pause of 1.0 s with no write, and the move_tail sequence (BODY
\* 0.0, 1.0, 0.0, each held 1.0 s); it writes nothing to MOUTH and leaves BODY
\* at 0.0.
C20_DanceSequence ==
    \A r \in objs :
        (exec[r] = "dance" /\ Returned(r)) =>
            /\ Invocation(r) = Held("body", 1000, <<Zero, NegOne>>) \o <<S(1000)>>
                               \o Held("body", 1000, <<Zero, One, Zero>>)
            /\ Values(Invocation(r), "mouth") = <<>>
            /\ throttle["body"] = Zero
            /\ throttle["mouth"] = prior["mouth"]

\* dance has returned with the mouth still where it was, away from 0.0
C20_Witness ==
    \E r \in objs :
        /\ task[r] = "dance" /\ Returned(r) /\ Len(Invocation(r)) = 11
        /\ prior["body"] = NegOne /\ throttle["body"] = Zero /\ throttle["mouth"] = One

\* C19: nothing keeps a second instance on the same motors from being activated
\* while the thread of a first one is alive (RUNNING, or STOPPING and finishing
\* its last iteration): its activation starts its thread whatever the state of
\* the other, and a write of either thread lands on the shared motor whatever
\* the other thread is doing.  (That the writes of the two threads then
\* interleave on an axis is the state of C19_Witness.)
C19_SecondRunnerNotPrevented ==
    [][\A r \in Runners :
         r \in objs =>
            /\ (pc[r] = "unstarted" /\ task[r] \in ValidTasks /\ enter(r)) =>
                  /\ err'[r] = "ok" /\ started'[r] = 1 /\ pc'[r] = "run"
            /\ write(r) => throttle'[Head(todo[r]).axis] = Head(todo[r]).v
      ]_vars

\* the first runner, a greet, was stopped and is finishing its iteration: it has
\* written MOUTH 0.8 and 0.6000000000000001 and has the rest of its sweep still to
\* write; the second runner, activated meanwhile, has written MOUTH 0.0 in
\* between, so MOUTH has received two values of one program and then a value
\* of another
C19_Witness ==
    /\ objs = Runners
    /\ task[1] = "greet" /\ pc[1] = "exec" /\ done[1] /\ ~inwith[1] /\ stops[1] = 1
    /\ Values(Invocation(1), "mouth") = SubSeq(GreetValues, 1, 2)
    /\ Values(todo[1], "mouth") = SubSeq(GreetValues, 3, 10) \o <<Zero>>
    /\ task[2] = "reset" /\ RunnerState(2) = "RUNNING" /\ iter[2] = 1
    /\ Values(trace[2], "mouth") = <<Zero>>
    /\ throttle["mouth"] = Zero

====
